---- MODULE Spec2Model ----
(***************************************************************************)
(* Model of src/server.js: the Slack slash-command webhook of the          *)
(* SessionBoard knowledge-base bot.                                        *)
(*                                                                         *)
(* JavaScript runs every handler to its next await without interleaving,   *)
(* so each action below is one such run: the code from the arrival of a    *)
(* request, or from the completion of an awaited call, to the next await   *)
(* (or to the end of the handler).                                         *)
(*                                                                         *)
(* Strings are TLA+ strings; a character is a string of length one.        *)
(* Indexes are those of JavaScript (from 0) in every operator named after  *)
(* a JavaScript method.                                                    *)
(***************************************************************************)
EXTENDS Integers, Sequences, FiniteSets, TLC

(***************************************************************************)
(* Bounds of the model.                                                    *)
(***************************************************************************)
\* Number of request slots (requests that may be in progress together).
NumReqs == 2
\* Longest landing page of the model, in anchors.
MaxLinks == 12
\* Longest landing page of the searches that run together, in anchors.
MaxConcurrentLinks == 2

(***************************************************************************)
(* Constants of the program.                                               *)
(***************************************************************************)
\* Math.abs(currentTime - timestamp) > 300
ReplayWindow == 300
\* articles.slice(0, 10)
ArticleLimit == 10
\* results.slice(0, 5)
ResultLimit == 5
\* title.length > 3
MinTitleLength == 3
\* index - 100
SnippetBefore == 100
\* index + 200
SnippetAfter == 200
\* 'v0=' followed by the 64 hex digits of a SHA-256 digest
SignatureLength == 67

(***************************************************************************)
(* JavaScript string methods.                                              *)
(***************************************************************************)
Min(a, b) == IF a < b THEN a ELSE b
Max(a, b) == IF a > b THEN a ELSE b
Abs(a) == IF a < 0 THEN 0 - a ELSE a

\* s.charAt(i), i from 0
CharAt(s, i) == SubSeq(s, i + 1, i + 1)

\* s.substring(from, to), 0 <= from <= to <= s.length
Substring(s, from, to) == SubSeq(s, from + 1, to)

\* s.startsWith(p)
StartsWith(s, p) == Len(p) <= Len(s) /\ SubSeq(s, 1, Len(p)) = p

\* s.indexOf(q): the least index at which q occurs in s, or -1
IndexOf(s, q) ==
    LET hits == { i \in 0..(Len(s) - Len(q)) : SubSeq(s, i + 1, i + Len(q)) = q }
    IN  IF hits = {} THEN -1 ELSE CHOOSE i \in hits : \A j \in hits : i <= j

\* s.includes(q)
Includes(s, q) == IndexOf(s, q) # -1

UpperCaseLetters == "ABCDEFGHIJKLMNOPQRSTUVWXYZ"
LowerCaseLetters == "abcdefghijklmnopqrstuvwxyz"

\* The lower-case letter of every upper-case letter.
LowerCaseOf ==
    [c \in { CharAt(UpperCaseLetters, i) : i \in 0..(Len(UpperCaseLetters) - 1) } |->
        CharAt(LowerCaseLetters, IndexOf(UpperCaseLetters, c))]

RECURSIVE ToLowerCase(_)
\* s.toLowerCase(), on ASCII text
ToLowerCase(s) ==
    IF Len(s) = 0 THEN ""
    ELSE LET c == CharAt(s, 0)
         IN  (IF c \in DOMAIN LowerCaseOf THEN LowerCaseOf[c] ELSE c)
                 \o ToLowerCase(SubSeq(s, 2, Len(s)))

\* The white space String.prototype.trim removes, within ASCII text.
IsWhiteSpace(c) == c \in {" ", "\t", "\n", "\r", "\f"}

RECURSIVE TrimStart(_)
TrimStart(s) ==
    IF Len(s) > 0 /\ IsWhiteSpace(CharAt(s, 0))
    THEN TrimStart(SubSeq(s, 2, Len(s))) ELSE s

RECURSIVE TrimEnd(_)
TrimEnd(s) ==
    IF Len(s) > 0 /\ IsWhiteSpace(CharAt(s, Len(s) - 1))
    THEN TrimEnd(SubSeq(s, 1, Len(s) - 1)) ELSE s

\* s.trim()
Trim(s) == TrimEnd(TrimStart(s))

RECURSIVE Split(_, _)
\* s.split(sep) for a separator of one or more characters: the pieces of s
\* between the occurrences of sep, empty pieces included.
Split(s, sep) ==
    LET k == IndexOf(s, sep)
    IN  IF k = -1 THEN <<s>>
        ELSE <<Substring(s, 0, k)>> \o Split(SubSeq(s, k + Len(sep) + 1, Len(s)), sep)

(***************************************************************************)
(* URL-encoded form data: Object.fromEntries(new URLSearchParams(rawBody)) *)
(***************************************************************************)
\* The printable ASCII characters from code 32 (space) to code 95 (_), and
\* from code 97 (a) to code 126 (~). Code 96 cannot be written in a string
\* of this language; the bodies of the model do not use it.
AsciiLow ==
    " !\"#$%&'()*+,-./0123456789:;<=>?@ABCDEFGHIJKLMNOPQRSTUVWXYZ[\\]^_"
AsciiHigh == "abcdefghijklmnopqrstuvwxyz{|}~"
AsciiFirst == 32
AsciiA == 97
HexDigits == "0123456789ABCDEF"
HexRadix == 16

\* The value of one hexadecimal digit (either case), or -1.
HexValue(c) ==
    IF Len(c) # 1 THEN -1
    ELSE LET u == IndexOf(HexDigits, c)
             l == IndexOf(ToLowerCase(HexDigits), c)
         IN  IF u # -1 THEN u ELSE l

RECURSIVE PercentDecode(_)
\* Percent-decoding of the URL parser: "%" and two hex digits is one byte,
\* any other "%" stays. Bytes are those of printable ASCII text.
PercentDecode(s) ==
    IF Len(s) = 0 THEN ""
    ELSE LET c == CharAt(s, 0)
             hi == IF Len(s) >= 3 THEN HexValue(CharAt(s, 1)) ELSE -1
             lo == IF Len(s) >= 3 THEN HexValue(CharAt(s, 2)) ELSE -1
             code == hi * HexRadix + lo
             inLow == code >= AsciiFirst /\ code < AsciiFirst + Len(AsciiLow)
             inHigh == code >= AsciiA /\ code < AsciiA + Len(AsciiHigh)
         IN  IF c = "%" /\ hi # -1 /\ lo # -1 /\ (inLow \/ inHigh)
             THEN (IF inLow THEN CharAt(AsciiLow, code - AsciiFirst)
                            ELSE CharAt(AsciiHigh, code - AsciiA))
                      \o PercentDecode(SubSeq(s, 4, Len(s)))
             ELSE c \o PercentDecode(SubSeq(s, 2, Len(s)))

RECURSIVE PlusToSpace(_)
\* The form decoder reads "+" as a space, before percent-decoding.
PlusToSpace(s) ==
    IF Len(s) = 0 THEN ""
    ELSE (IF CharAt(s, 0) = "+" THEN " " ELSE CharAt(s, 0))
             \o PlusToSpace(SubSeq(s, 2, Len(s)))

FormDecode(s) == PercentDecode(PlusToSpace(s))

\* One name=value piece of the body: split at its first "=".
FormPair(piece) ==
    LET k == IndexOf(piece, "=")
    IN  IF k = -1 THEN <<FormDecode(piece), "">>
        ELSE <<FormDecode(Substring(piece, 0, k)),
               FormDecode(Substring(piece, k + 1, Len(piece)))>>

\* new URLSearchParams(rawBody): one leading "?" is dropped; the pairs of the
\* non-empty pieces between "&".
URLSearchParams(rawBody) ==
    LET query == IF StartsWith(rawBody, "?") THEN SubSeq(rawBody, 2, Len(rawBody))
                 ELSE rawBody
        pieces == Split(query, "&")
        kept == SelectSeq(pieces, LAMBDA p : Len(p) > 0)
    IN  [i \in 1..Len(kept) |-> FormPair(kept[i])]

\* Object.fromEntries(pairs): a mapping of name to value; of two pairs with
\* one name the later wins.
FromEntries(pairs) ==
    LET names == { pairs[i][1] : i \in 1..Len(pairs) }
        last(n) == CHOOSE i \in 1..Len(pairs) :
                      /\ pairs[i][1] = n
                      /\ \A j \in 1..Len(pairs) : pairs[j][1] = n => j <= i
    IN  [n \in names |-> pairs[last(n)][2]]

ParseBody(rawBody) == FromEntries(URLSearchParams(rawBody))

\* A property of an object: a sequence of one value, or of none (undefined).
Prop(obj, name) == IF name \in DOMAIN obj THEN <<obj[name]>> ELSE <<>>

(***************************************************************************)
(* verifySlackSignature: the pieces.                                       *)
(***************************************************************************)
DecimalDigits == "0123456789"
DecimalRadix == 10

RECURSIVE DigitsValue(_)
\* The value of a non-empty string of decimal digits.
DigitsValue(s) ==
    IF Len(s) = 0 THEN 0
    ELSE DigitsValue(SubSeq(s, 1, Len(s) - 1)) * DecimalRadix
             + IndexOf(DecimalDigits, CharAt(s, Len(s) - 1))

IsDigits(s) ==
    Len(s) > 0 /\ \A i \in 0..(Len(s) - 1) : Includes(DecimalDigits, CharAt(s, i))

\* The number a string is coerced to by the subtraction currentTime - timestamp:
\* <<n>>, or <<>> for NaN. White space around the number is dropped and the
\* empty string is 0. Of the numeric literals only the signed decimal integers
\* are read here; the timestamps of the model hold no other numeric literal.
ToNumber(s) ==
    LET t == Trim(s)
        signed == Len(t) > 0 /\ CharAt(t, 0) \in {"-", "+"}
        digits == IF signed THEN SubSeq(t, 2, Len(t)) ELSE t
    IN  IF Len(t) = 0 THEN <<0>>
        ELSE IF ~IsDigits(digits) THEN <<>>
        ELSE IF signed /\ CharAt(t, 0) = "-" THEN <<0 - DigitsValue(digits)>>
        ELSE <<DigitsValue(digits)>>

\* Math.abs(currentTime - timestamp) > 300. A comparison with NaN is false.
IsStale(currentTime, timestamp) ==
    LET n == ToNumber(timestamp)
    IN  n # <<>> /\ Abs(currentTime - n[1]) > ReplayWindow

\* !value, for a header value that is a string or undefined.
IsMissing(header) == header = <<>> \/ header[1] = ""

\* `v0:${timestamp}:${rawBody}`
SigBasestring(timestamp, rawBody) == "v0:" \o timestamp \o ":" \o rawBody

\* 'v0=' + createHmac('sha256', key).update(msg).digest('hex'). The digest is
\* not computed: it is the term of its key and message, so that two digests
\* are equal exactly when their keys and messages are (no collision), and its
\* text has the 64 hex digits of a SHA-256 digest.
Sign(key, msg) == [kind |-> "hmac", key |-> key, msg |-> msg]

\* A signature header given as literal text rather than as a digest.
Literal(text) == [kind |-> "text", key |-> "", msg |-> text]

\* Buffer.from(sig, 'utf8').length, on ASCII text
ByteLength(sig) == IF sig.kind = "hmac" THEN SignatureLength ELSE Len(sig.msg)

\* The text of a signature header, for the test !slackSignature.
SigHeader(h) == IF h = <<>> THEN <<>>
                ELSE IF h[1].kind = "text" THEN <<h[1].msg>> ELSE <<"v0=">>

\* crypto.timingSafeEqual(a, b): "throws" when the byte lengths differ
\* (RangeError ERR_CRYPTO_TIMING_SAFE_EQUAL_LENGTH), else whether a = b.
TimingSafeEqual(a, b) ==
    IF ByteLength(a) # ByteLength(b) THEN "throws"
    ELSE IF a = b THEN "equal" ELSE "differ"

\* verifySlackSignature(req, res, next) as a function of the request, the
\* secret and the clock: what it did (sent a 401, called next, or threw) and
\* the req.body it left.
VerifyResult(signature, timestamp, body, signingSecret, currentTime) ==
    IF IsMissing(SigHeader(signature)) \/ IsMissing(timestamp)
    THEN [did |-> "401", text |-> "Unauthorized", body |-> body]
    ELSE IF IsStale(currentTime, timestamp[1])
    THEN [did |-> "401", text |-> "Request timeout", body |-> body]
    ELSE LET rawBody == body.raw
             parsed == [kind |-> "parsed", raw |-> "", fields |-> ParseBody(rawBody)]
             mySignature == Sign(signingSecret, SigBasestring(timestamp[1], rawBody))
             cmp == TimingSafeEqual(mySignature, signature[1])
         IN  IF cmp = "throws" THEN [did |-> "throw", text |-> "", body |-> parsed]
             ELSE IF cmp = "equal" THEN [did |-> "next", text |-> "", body |-> parsed]
             ELSE [did |-> "401", text |-> "Unauthorized", body |-> parsed]

(***************************************************************************)
(* SessionBoardSearch: the pure methods.                                   *)
(***************************************************************************)
\* content.includes(query) || query.split(' ').some(word => content.includes(word))
contentMatches(content, query) ==
    \/ Includes(content, query)
    \/ LET words == Split(query, " ")
       IN  \E i \in 1..Len(words) : Includes(content, words[i])

\* A variant that counts the 200 characters from the end of the match.
extractSnippetAfterMatch(content, query) ==
    LET index == IndexOf(content, query)
        start == Max(0, index - SnippetBefore)
        end == Min(Len(content), index + Len(query) + SnippetAfter)
    IN  IF index = -1 THEN ""
        ELSE Trim(Substring(content, start, end)) \o "..."

\* const index = content.indexOf(query); '' if -1, else the trimmed window
\* from index - 100 to index + 200, within the content, and '...'
extractSnippet(content, query) ==
    LET index == IndexOf(content, query)
        start == Max(0, index - SnippetBefore)
        end == Min(Len(content), index + SnippetAfter)
    IN  IF index = -1 THEN ""
        ELSE Trim(Substring(content, start, end)) \o "..."

(***************************************************************************)
(* The world outside the program: the secret, the clock, the requests the  *)
(* webhook may receive, the knowledge-base site.                           *)
(***************************************************************************)
Reqs == 1..NumReqs

\* process.env.SLACK_SIGNING_SECRET, and a secret that is not it.
SigningSecret == "8f742231b10e8888abcd99yyyzzz85a5"
OtherSecret == "0000000000000000000000000000000"

\* Math.floor(Date.now() / 1000)
CurrentTimes == {1000}

\* Values of the x-slack-request-timestamp header: 400 s old, 300 s old, now,
\* 301 s ahead, not a number, empty; <<>> is the header left out.
TimestampHeaders == {<<"600">>, <<"700">>, <<"1000">>, <<"1301">>,
                     <<"abc">>, <<"">>, <<>>}

\* Raw bodies, as Slack form-encodes a slash command, and one with a "?" in
\* front.
RawBodies == {"command=%2Fsbhelp&text=Setup&user_id=U1&channel_id=C1",
              "command=%2Fsbhelp&user_id=U2&channel_id=C1",
              "?command=%2Fsbhelp&text=Badge&user_id=U1&channel_id=C2",
              "command=%2Fweather&text=Setup&user_id=U1&channel_id=C1"}

\* Timestamps a signature of the model may have been computed over.
SignedTimestamps == {"700", "1000", "abc", "600"}

\* Values of the x-slack-signature header: digests under either secret over
\* any timestamp and body of the model, literal texts shorter than, as long as
\* and longer than a digest, the empty text; <<>> is the header left out.
SignatureHeaders ==
    { <<Sign(k, SigBasestring(t, b))>> :
          k \in {SigningSecret, OtherSecret}, t \in SignedTimestamps, b \in RawBodies }
    \cup { <<Literal("v0=abc")>>,
           <<Literal("v0=0000000000000000000000000000000000000000000000000000000000000000")>>,
           <<Literal("v0=00000000000000000000000000000000000000000000000000000000000000000")>>,
           <<Literal("")>>,
           <<>> }

\* this.baseUrl, and the origin relative links are resolved against.
BaseUrl == "https://learn.sessionboard.com/en/knowledge-base"
Origin == "https://learn.sessionboard.com"

\* Anchors a landing page of the model is made of: link text and href.
AnchorPool == <<
    [text |-> "  Setup guide ", href |-> "/en/knowledge-base/setup"],
    [text |-> "Badges", href |-> "https://learn.sessionboard.com/en/knowledge-base/badges"],
    [text |-> "Start here", href |-> "/en/knowledge-base/start"],
    [text |-> "FAQ ", href |-> "/en/knowledge-base/faq"],
    [text |-> "Our blog", href |-> "/blog/news"] >>

\* The landing page of n anchors that repeats the first k anchors of the pool.
Page(n, k) == [i \in 1..n |-> AnchorPool[((i - 1) % k) + 1]]

LandingPages == { Page(n, k) : n \in 0..MaxLinks, k \in 1..Len(AnchorPool) }

\* The body text of the article pages of the site.
SiteText(url) ==
    CASE url = "https://learn.sessionboard.com/en/knowledge-base/setup"
           -> "Setup: Getting Started"
      [] url = "https://learn.sessionboard.com/en/knowledge-base/badges"
           -> "Badge printing"
      [] OTHER -> "Started here"

(***************************************************************************)
(* searchKnowledgeBase: the articles of a landing page.                    *)
(***************************************************************************)
\* $('a[href*="/knowledge-base/"]').each(...): the anchors the selector takes,
\* those of them with a title longer than 3 after trim, their urls made
\* absolute.
DiscoverArticles(page) ==
    LET selected == SelectSeq(page, LAMBDA a : Includes(a.href, "/knowledge-base/"))
        kept == SelectSeq(selected,
                    LAMBDA a : Trim(a.text) # "" /\ a.href # ""
                               /\ Len(Trim(a.text)) > MinTitleLength)
    IN  [i \in 1..Len(kept) |->
            [title |-> Trim(kept[i].text),
             url |-> IF StartsWith(kept[i].href, "http") THEN kept[i].href
                     ELSE Origin \o kept[i].href]]

\* seq.slice(0, n)
Slice(seq, n) == SubSeq(seq, 1, Min(n, Len(seq)))

\* A variant that visits every discovered article.
BatchAll(arts) == arts

\* for (const article of articles.slice(0, 10)): the articles the loop visits.
Batch(arts) == Slice(arts, ArticleLimit)

\* A variant that returns every match.
TopResultsAll(res) == res

\* return results.slice(0, 5)
TopResults(res) == Slice(res, ResultLimit)

\* A variant in which a failed fetch ends the loop (a catch around the loop).
AfterFailureAbort(i, arts) == Len(arts) + 1

\* The iteration the loop goes on with after the fetch of iteration i failed:
\* the catch is inside the loop body.
AfterFailure(i, arts) == i + 1

\* A variant that never finds an entry.
CacheHasNever(c, url) == FALSE

\* this.cache.has(url)
CacheHas(c, url) == url \in DOMAIN c

\* A variant that stores nothing.
CachePutNothing(c, url, content) == c

\* A variant that keeps only the entry it stores.
CachePutOnly(c, url, content) == [u \in {url} |-> content]

\* this.cache.set(url, content): the cache with content under url.
CachePut(c, url, content) ==
    [u \in DOMAIN c \cup {url} |-> IF u = url THEN content ELSE c[u]]

\* `${value}` for a value that is a string or undefined.
Template(opt) == IF opt = <<>> THEN "undefined" ELSE opt[1]

\* text || 'getting started'
QueryOf(text) == IF text = <<>> \/ text[1] = "" THEN "getting started" ELSE text[1]

\* The entry searchArticles pushes for a matching article.
ResultOf(article, content, queryLower) ==
    [title |-> article.title, url |-> article.url,
     snippet |-> extractSnippet(content, queryLower)]

(***************************************************************************)
(* sendSearchResults: the message posted.                                  *)
(***************************************************************************)
ResultBlock(result) ==
    [type |-> "section",
     text |-> "*<" \o result.url \o "|" \o result.title \o ">*\n"
                 \o (IF result.snippet = "" THEN "Click to read more..."
                     ELSE result.snippet)]

Divider == [type |-> "divider", text |-> ""]

RECURSIVE ResultBlocks(_)
\* results.forEach: a section per result, a divider between two results.
ResultBlocks(results) ==
    IF Len(results) = 0 THEN <<>>
    ELSE IF Len(results) = 1 THEN <<ResultBlock(results[1])>>
    ELSE <<ResultBlock(results[1]), Divider>> \o ResultBlocks(Tail(results))

\* A variant without the branch for no results.
SearchResultsMessageNoEmptyBranch(channel, query, results) ==
    [method |-> "chat.postMessage", channel |-> channel, user |-> <<>>,
     text |-> "Found " \o ToString(Len(results)) \o " results for \""
                 \o Template(query) \o "\"",
     blocks |-> <<[type |-> "section",
                   text |-> "*SessionBoard Knowledge Base Results for \""
                               \o Template(query) \o "\"*"],
                  Divider>>
                \o ResultBlocks(results)
                \o <<[type |-> "context",
                      text |-> "Use '/sbhelp [your question]' to search again"]>>]

\* The chat.postMessage call of sendSearchResults(channel, user, query, results).
\* (The grave accents around the command in the context block are written as
\* apostrophes: a string of this language cannot hold code 96.)
SearchResultsMessage(channel, query, results) ==
    IF Len(results) = 0
    THEN [method |-> "chat.postMessage", channel |-> channel, user |-> <<>>,
          text |-> "No results found for \"" \o Template(query)
                      \o "\". Try searching for general topics like \"getting started\", \"setup\", or \"features\".",
          blocks |-> <<>>]
    ELSE [method |-> "chat.postMessage", channel |-> channel, user |-> <<>>,
          text |-> "Found " \o ToString(Len(results)) \o " results for \""
                      \o Template(query) \o "\"",
          blocks |-> <<[type |-> "section",
                        text |-> "*SessionBoard Knowledge Base Results for \""
                                    \o Template(query) \o "\"*"],
                       Divider>>
                     \o ResultBlocks(results)
                     \o <<[type |-> "context",
                           text |-> "Use '/sbhelp [your question]' to search again"]>>]

\* The chat.postEphemeral call of the handler's catch.
ErrorMessage(channel, user) ==
    [method |-> "chat.postEphemeral", channel |-> channel, user |-> user,
     text |-> "Sorry, I encountered an error while searching. Please try again.",
     blocks |-> <<>>]

(***************************************************************************)
(* State.                                                                  *)
(***************************************************************************)
VARIABLES
    cache,       \* searcher.cache: url -> lowercased body text (a Map)
    pc,          \* per request: where its handling stands (which await)
    req,         \* per request: its headers, its raw body, req.body, the clock
    outcome,     \* per request: what verifySlackSignature did, "" before it ran
    responses,   \* per request: the writes to res, in order
    thrown,      \* per request: "" or where an exception escaped the code
    articles,    \* per request: the articles of the landing page
    idx,         \* per request: the iteration of the for loop (from 1)
    results,     \* per request: the results array of searchArticles
    returned,    \* per request: <<>> or <<the value searchKnowledgeBase returned>>
    processed,   \* per request: the iterations of the loop so far (history)
    slackCalls,  \* per request: the Slack API calls issued, in order
    trace,       \* per request: the events of its handling, in order (history)
    call         \* a call of a method of the searcher on its own: the method,
                 \* its arguments and, once it has returned, its result

vars == <<cache, pc, req, outcome, responses, thrown, articles, idx, results,
          returned, processed, slackCalls, trace, call>>

\* A request slot that holds no request.
NoRequest == [signature |-> <<>>, timestamp |-> <<>>, rawBody |-> "",
              body |-> [kind |-> "raw", raw |-> "", fields |-> <<>>],
              currentTime |-> 0]

Event(name, url) == [ev |-> name, url |-> url]

\* No method is being called on its own.
NoCall == [fn |-> "", content |-> "", query |-> "", result |-> <<>>]

Init ==
    /\ call = NoCall
    /\ cache = [u \in {} |-> ""]
    /\ pc = [r \in Reqs |-> "idle"]
    /\ req = [r \in Reqs |-> NoRequest]
    /\ outcome = [r \in Reqs |-> ""]
    /\ responses = [r \in Reqs |-> <<>>]
    /\ thrown = [r \in Reqs |-> ""]
    /\ articles = [r \in Reqs |-> <<>>]
    /\ idx = [r \in Reqs |-> 0]
    /\ results = [r \in Reqs |-> <<>>]
    /\ returned = [r \in Reqs |-> <<>>]
    /\ processed = [r \in Reqs |-> <<>>]
    /\ slackCalls = [r \in Reqs |-> <<>>]
    /\ trace = [r \in Reqs |-> <<>>]

\* The fields of the parsed req.body the handler destructures.
Command(r) == Prop(req[r].body.fields, "command")
Text(r) == Prop(req[r].body.fields, "text")
UserId(r) == Prop(req[r].body.fields, "user_id")
ChannelId(r) == Prop(req[r].body.fields, "channel_id")

\* const queryLower = query.toLowerCase(), query being text || 'getting started'
QueryLower(r) == ToLowerCase(QueryOf(Text(r)))

(***************************************************************************)
(* A request arrives at POST /slack/commands: express.raw has put the raw  *)
(* body in req.body, and verifySlackSignature runs.                        *)
(***************************************************************************)
Verify(r, signatures, timestamps, bodies) ==
    /\ pc[r] = "idle"
    /\ \E signature \in signatures, timestamp \in timestamps,
          rawBody \in bodies, currentTime \in CurrentTimes :
         LET v == VerifyResult(signature, timestamp,
                               [kind |-> "raw", raw |-> rawBody, fields |-> <<>>],
                               SigningSecret, currentTime)
         IN  /\ req' = [req EXCEPT ![r] =
                          [signature |-> signature, timestamp |-> timestamp,
                           rawBody |-> rawBody, body |-> v.body,
                           currentTime |-> currentTime]]
             /\ outcome' = [outcome EXCEPT ![r] = v.did]
             /\ responses' = [responses EXCEPT ![r] =
                                IF v.did = "401"
                                THEN <<[status |-> 401, text |-> v.text]>>
                                ELSE <<>>]
             /\ thrown' = [thrown EXCEPT ![r] =
                             IF v.did = "throw" THEN "verifySlackSignature" ELSE ""]
             /\ trace' = [trace EXCEPT ![r] =
                            IF v.did = "next" THEN <<Event("next", "")>>
                            ELSE IF v.did = "401" THEN <<Event("respond", "")>>
                            ELSE <<Event("throw", "")>>]
             /\ pc' = [pc EXCEPT ![r] = IF v.did = "next" THEN "handler" ELSE "done"]
    /\ UNCHANGED <<cache, articles, idx, results, returned, processed, slackCalls>>
    /\ UNCHANGED call

(***************************************************************************)
(* The slash command handler, to its first await.                          *)
(***************************************************************************)
\* A variant that takes every command for the search command.
IsSearchCommandAlways(command) == TRUE

\* command === '/sbhelp'
IsSearchCommand(command) == command = <<"/sbhelp">>

\* A variant that starts the search before it answers the request.
SearchStartLate == <<Event("fetchLanding", BaseUrl), Event("respond", "")>>

\* What the handler does for /sbhelp before its first await, in order: the
\* acknowledgment res.json(...), then searchKnowledgeBase, which issues
\* axios.get(this.baseUrl).
SearchStart == <<Event("respond", ""), Event("fetchLanding", BaseUrl)>>

CommandHandler(r) ==
    /\ pc[r] = "handler"
    /\ IF IsSearchCommand(Command(r))
       THEN \* res.json(searching); searchKnowledgeBase: axios.get(this.baseUrl)
            /\ responses' = [responses EXCEPT ![r] = Append(@,
                     [status |-> 200, text |-> "Searching SessionBoard knowledge base..."])]
            /\ trace' = [trace EXCEPT ![r] = @ \o SearchStart]
            /\ pc' = [pc EXCEPT ![r] = "landing"]
       ELSE /\ responses' = [responses EXCEPT ![r] = Append(@,
                     [status |-> 200, text |-> "Unknown command"])]
            /\ trace' = [trace EXCEPT ![r] = Append(@, Event("respond", ""))]
            /\ pc' = [pc EXCEPT ![r] = "done"]
    /\ UNCHANGED <<cache, req, outcome, thrown, articles, idx, results, returned,
                   processed, slackCalls>>
    /\ UNCHANGED call

(***************************************************************************)
(* searchArticles from iteration i of its loop to the next await: the      *)
(* fetch of an article not in the cache, the delay after an article found  *)
(* in the cache, or, after the last article, the return of the results to  *)
(* the handler, which calls sendSearchResults (slack.postMessage).         *)
(***************************************************************************)
RunLoop(r, arts, i, res, tr, proc) ==
    LET batch == Batch(arts)
    IN  IF i > Len(batch)
        THEN LET out == TopResults(res)
             IN  /\ returned' = [returned EXCEPT ![r] = <<out>>]
                 /\ slackCalls' = [slackCalls EXCEPT ![r] =
                        Append(@, SearchResultsMessage(ChannelId(r), Text(r), out))]
                 /\ trace' = [trace EXCEPT ![r] =
                        tr \o <<Event("return", ""), Event("postMessage", "")>>]
                 /\ pc' = [pc EXCEPT ![r] = "posting"]
                 /\ results' = [results EXCEPT ![r] = res]
                 /\ processed' = [processed EXCEPT ![r] = proc]
        ELSE IF CacheHas(cache, batch[i].url)
        THEN LET content == cache[batch[i].url]
                 matched == contentMatches(content, QueryLower(r))
             IN  /\ results' = [results EXCEPT ![r] =
                        IF matched
                        THEN Append(res, ResultOf(batch[i], content, QueryLower(r)))
                        ELSE res]
                 /\ processed' = [processed EXCEPT ![r] = Append(proc,
                        [article |-> batch[i], how |-> "hit", matched |-> matched])]
                 /\ trace' = [trace EXCEPT ![r] =
                        tr \o <<Event("cacheHit", batch[i].url), Event("delay", "")>>]
                 /\ pc' = [pc EXCEPT ![r] = "delay"]
                 /\ UNCHANGED <<returned, slackCalls>>
        ELSE /\ trace' = [trace EXCEPT ![r] = Append(tr, Event("fetch", batch[i].url))]
             /\ pc' = [pc EXCEPT ![r] = "fetching"]
             /\ results' = [results EXCEPT ![r] = res]
             /\ processed' = [processed EXCEPT ![r] = proc]
             /\ UNCHANGED <<returned, slackCalls>>

(***************************************************************************)
(* The landing page arrives, or its fetch fails.                           *)
(***************************************************************************)
LandingFailed(r) ==
    \* catch: return []; the handler calls sendSearchResults with no results
    /\ pc[r] = "landing"
    /\ returned' = [returned EXCEPT ![r] = << <<>> >>]
    /\ slackCalls' = [slackCalls EXCEPT ![r] =
           Append(@, SearchResultsMessage(ChannelId(r), Text(r), <<>>))]
    /\ trace' = [trace EXCEPT ![r] = @ \o <<Event("landingFailed", BaseUrl),
                      Event("return", ""), Event("postMessage", "")>>]
    /\ pc' = [pc EXCEPT ![r] = "posting"]
    /\ UNCHANGED <<cache, req, outcome, responses, thrown, articles, idx, results,
                   processed>>
    /\ UNCHANGED call

LandingLoaded(r, pages) ==
    /\ pc[r] = "landing"
    /\ \E page \in pages :
         LET arts == DiscoverArticles(page)
         IN  /\ articles' = [articles EXCEPT ![r] = arts]
             /\ idx' = [idx EXCEPT ![r] = 1]
             /\ RunLoop(r, arts, 1, <<>>, trace[r], <<>>)
    /\ UNCHANGED <<cache, req, outcome, responses, thrown>>
    /\ UNCHANGED call

(***************************************************************************)
(* The fetch of an article ends.                                           *)
(***************************************************************************)
ArticleFailed(r) ==
    \* catch: console.error; the loop goes on with the next article
    /\ pc[r] = "fetching"
    /\ LET article == articles[r][idx[r]]
       IN  /\ idx' = [idx EXCEPT ![r] = AfterFailure(@, articles[r])]
           /\ RunLoop(r, articles[r], AfterFailure(idx[r], articles[r]), results[r],
                      Append(trace[r], Event("fetchFailed", article.url)),
                      Append(processed[r],
                             [article |-> article, how |-> "failed", matched |-> FALSE]))
    /\ UNCHANGED <<cache, req, outcome, responses, thrown, articles>>
    /\ UNCHANGED call

ArticleLoaded(r) ==
    \* content = $('body').text().toLowerCase(); this.cache.set(url, content);
    \* the match; then the delay
    /\ pc[r] = "fetching"
    /\ LET article == articles[r][idx[r]]
           content == ToLowerCase(SiteText(article.url))
           matched == contentMatches(content, QueryLower(r))
       IN  /\ cache' = CachePut(cache, article.url, content)
           /\ results' = [results EXCEPT ![r] =
                  IF matched THEN Append(@, ResultOf(article, content, QueryLower(r)))
                  ELSE @]
           /\ processed' = [processed EXCEPT ![r] = Append(@,
                  [article |-> article, how |-> "fetched", matched |-> matched])]
           /\ trace' = [trace EXCEPT ![r] = @ \o <<Event("fetched", article.url),
                  Event("cacheSet", article.url), Event("delay", "")>>]
    /\ pc' = [pc EXCEPT ![r] = "delay"]
    /\ UNCHANGED <<req, outcome, responses, thrown, articles, idx, returned, slackCalls>>
    /\ UNCHANGED call

(***************************************************************************)
(* The 500 ms timer of an iteration fires: the loop goes on.               *)
(***************************************************************************)
DelayElapsed(r) ==
    /\ pc[r] = "delay"
    /\ idx' = [idx EXCEPT ![r] = @ + 1]
    /\ RunLoop(r, articles[r], idx[r] + 1, results[r],
               Append(trace[r], Event("delayed", "")), processed[r])
    /\ UNCHANGED <<cache, req, outcome, responses, thrown, articles>>
    /\ UNCHANGED call

(***************************************************************************)
(* The Slack API answers the chat.postMessage of sendSearchResults.        *)
(***************************************************************************)
PostMessageSent(r) ==
    /\ pc[r] = "posting"
    /\ trace' = [trace EXCEPT ![r] = Append(@, Event("posted", ""))]
    /\ pc' = [pc EXCEPT ![r] = "done"]
    /\ UNCHANGED <<cache, req, outcome, responses, thrown, articles, idx, results,
                   returned, processed, slackCalls>>
    /\ UNCHANGED call

PostMessageFailed(r) ==
    \* SlackAPI.request logs and rethrows; the handler's inner catch calls
    \* slack.postEphemeral
    /\ pc[r] = "posting"
    /\ slackCalls' = [slackCalls EXCEPT ![r] =
           Append(@, ErrorMessage(ChannelId(r), UserId(r)))]
    /\ trace' = [trace EXCEPT ![r] =
           @ \o <<Event("postFailed", ""), Event("postEphemeral", "")>>]
    /\ pc' = [pc EXCEPT ![r] = "ephemeral"]
    /\ UNCHANGED <<cache, req, outcome, responses, thrown, articles, idx, results,
                   returned, processed>>
    /\ UNCHANGED call

(***************************************************************************)
(* The Slack API answers the chat.postEphemeral of the inner catch.        *)
(***************************************************************************)
PostEphemeralSent(r) ==
    /\ pc[r] = "ephemeral"
    /\ trace' = [trace EXCEPT ![r] = Append(@, Event("ephemeralPosted", ""))]
    /\ pc' = [pc EXCEPT ![r] = "done"]
    /\ UNCHANGED <<cache, req, outcome, responses, thrown, articles, idx, results,
                   returned, processed, slackCalls>>
    /\ UNCHANGED call

PostEphemeralFailed(r) ==
    \* the rejection reaches the outer catch: res.status(500).json(...), on a
    \* response already sent, which throws out of the handler
    /\ pc[r] = "ephemeral"
    /\ responses' = [responses EXCEPT ![r] =
           Append(@, [status |-> 500, text |-> "Internal server error"])]
    /\ thrown' = [thrown EXCEPT ![r] = "handler"]
    /\ trace' = [trace EXCEPT ![r] =
           @ \o <<Event("ephemeralFailed", ""), Event("respond", ""), Event("throw", "")>>]
    /\ pc' = [pc EXCEPT ![r] = "done"]
    /\ UNCHANGED <<cache, req, outcome, articles, idx, results, returned, processed,
                   slackCalls>>
    /\ UNCHANGED call

(***************************************************************************)
(* The handling of a request is over; its slot may take the next request.  *)
(* The cache stays.                                                        *)
(***************************************************************************)
Finish(r) ==
    /\ pc[r] = "done"
    /\ pc' = [pc EXCEPT ![r] = "idle"]
    /\ req' = [req EXCEPT ![r] = NoRequest]
    /\ outcome' = [outcome EXCEPT ![r] = ""]
    /\ responses' = [responses EXCEPT ![r] = <<>>]
    /\ thrown' = [thrown EXCEPT ![r] = ""]
    /\ articles' = [articles EXCEPT ![r] = <<>>]
    /\ idx' = [idx EXCEPT ![r] = 0]
    /\ results' = [results EXCEPT ![r] = <<>>]
    /\ returned' = [returned EXCEPT ![r] = <<>>]
    /\ processed' = [processed EXCEPT ![r] = <<>>]
    /\ slackCalls' = [slackCalls EXCEPT ![r] = <<>>]
    /\ trace' = [trace EXCEPT ![r] = <<>>]
    /\ UNCHANGED cache
    /\ UNCHANGED call

(***************************************************************************)
(* Requests handled one after the other, with every request and every      *)
(* landing page of the model.                                              *)
(***************************************************************************)
Next ==
    \/ Verify(1, SignatureHeaders, TimestampHeaders, RawBodies)
    \/ CommandHandler(1)
    \/ LandingFailed(1)
    \/ LandingLoaded(1, LandingPages)
    \/ ArticleFailed(1)
    \/ ArticleLoaded(1)
    \/ DelayElapsed(1)
    \/ PostMessageSent(1)
    \/ PostMessageFailed(1)
    \/ PostEphemeralSent(1)
    \/ PostEphemeralFailed(1)
    \/ Finish(1)

Spec == Init /\ [][Next]_vars

(***************************************************************************)
(* Searches that run together: every slot takes correctly signed /sbhelp   *)
(* requests and the landing pages are short; every fetch and every Slack   *)
(* call may succeed or fail. The steps of the slots interleave at every    *)
(* await.                                                                  *)
(***************************************************************************)
ConcurrentBodies == {"command=%2Fsbhelp&text=Setup&user_id=U1&channel_id=C1"}

ConcurrentTimestamps == {<<"1000">>}

ConcurrentSignatures ==
    { <<Sign(SigningSecret, SigBasestring(t[1], b))>> :
          t \in ConcurrentTimestamps, b \in ConcurrentBodies }

ConcurrentPages ==
    { Page(n, k) : n \in 1..MaxConcurrentLinks, k \in 1..MaxConcurrentLinks }

NextConcurrent ==
    \E r \in Reqs :
        \/ Verify(r, ConcurrentSignatures, ConcurrentTimestamps, ConcurrentBodies)
        \/ CommandHandler(r)
        \/ LandingFailed(r)
        \/ LandingLoaded(r, ConcurrentPages)
        \/ ArticleFailed(r)
        \/ ArticleLoaded(r)
        \/ DelayElapsed(r)
        \/ PostMessageSent(r)
        \/ PostMessageFailed(r)
        \/ PostEphemeralSent(r)
        \/ PostEphemeralFailed(r)
        \/ Finish(r)

SpecConcurrent == Init /\ [][NextConcurrent]_vars

(***************************************************************************)
(* Vocabulary of the properties.                                           *)
(***************************************************************************)
\* The events of request r with one of the given names, in order.
Events(r, names) == SelectSeq(trace[r], LAMBDA e : e.ev \in names)

\* verifySlackSignature has run on the request of slot r.
Verified(r) == outcome[r] # ""

\* Both headers came with the request.
HeadersPresent(r) ==
    /\ req[r].signature # <<>> /\ SigHeader(req[r].signature) # <<"">>
    /\ req[r].timestamp # <<>> /\ req[r].timestamp # <<"">>

\* The timestamp header is a number within 300 seconds of the clock.
WithinWindow(r) ==
    LET t == ToNumber(req[r].timestamp[1])
    IN  /\ t # <<>>
        /\ req[r].currentTime - t[1] <= ReplayWindow
        /\ t[1] - req[r].currentTime <= ReplayWindow

\* The signature header is the digest of this request under the secret.
SignatureMatches(r) ==
    req[r].signature =
        <<Sign(SigningSecret, SigBasestring(req[r].timestamp[1], req[r].rawBody))>>

\* The form fields of the raw bodies of the model, decoded by hand: the names
\* and values are the texts on either side of each "=", between the "&".
DecodedFields(rawBody) ==
    CASE rawBody = "command=%2Fsbhelp&text=Setup&user_id=U1&channel_id=C1"
           -> [command |-> "/sbhelp", text |-> "Setup", user_id |-> "U1",
               channel_id |-> "C1"]
      [] rawBody = "command=%2Fsbhelp&user_id=U2&channel_id=C1"
           -> [command |-> "/sbhelp", user_id |-> "U2", channel_id |-> "C1"]
      [] rawBody = "command=%2Fweather&text=Setup&user_id=U1&channel_id=C1"
           -> [command |-> "/weather", text |-> "Setup", user_id |-> "U1",
               channel_id |-> "C1"]
      [] rawBody = "?command=%2Fsbhelp&text=Badge&user_id=U1&channel_id=C2"
           -> ("?command" :> "/sbhelp" @@ "text" :> "Badge" @@ "user_id" :> "U1"
               @@ "channel_id" :> "C2")

\* The events by which the handler or a search shows: anything but the
\* answer of verifySlackSignature itself.
HandlerEvents == {"next", "fetchLanding", "landingFailed", "fetch", "fetched",
                  "fetchFailed", "cacheHit", "cacheSet", "delay", "delayed",
                  "return", "postMessage", "posted", "postFailed",
                  "postEphemeral", "ephemeralPosted", "ephemeralFailed"}

(***************************************************************************)
(* C1. A request with both headers, a timestamp within 300 seconds of the  *)
(* clock and the signature 'v0=' + hex(HMAC-SHA256(secret, 'v0:' +         *)
(* timestamp + ':' + rawBody)) gets no 401, next() is called exactly once, *)
(* and req.body is the form fields decoded from the raw body.              *)
(***************************************************************************)
C1_ValidRequestPasses ==
    \A r \in Reqs :
        (Verified(r) /\ HeadersPresent(r) /\ WithinWindow(r) /\ SignatureMatches(r))
        => /\ outcome[r] = "next"
           /\ \A k \in 1..Len(responses[r]) : responses[r][k].status # 401
           /\ Len(Events(r, {"next"})) = 1
           /\ req[r].body.kind = "parsed"
           /\ req[r].body.fields = DecodedFields(req[r].rawBody)

(***************************************************************************)
(* C2. A request with both headers and a fresh timestamp whose signature   *)
(* differs in any way from the computed one (other secret, other body, any *)
(* other length or content) ends with the 401 'Unauthorized': next() is    *)
(* not called and no exception escapes.                                    *)
(***************************************************************************)
C2_MismatchIsUnauthorized ==
    \A r \in Reqs :
        (Verified(r) /\ HeadersPresent(r) /\ WithinWindow(r) /\ ~SignatureMatches(r))
        => /\ outcome[r] = "401"
           /\ responses[r] = <<[status |-> 401, text |-> "Unauthorized"]>>
           /\ Events(r, {"next"}) = <<>>
           /\ thrown[r] = ""

(***************************************************************************)
(* C3. next() is called only for a timestamp header t with                 *)
(* |now - t| <= 300; every other timestamp header, a value that is not a   *)
(* number included, is answered 401 as stale, the body is not parsed and   *)
(* the handler does not run.                                               *)
(***************************************************************************)
C3_OnlyFreshTimestampsPass ==
    \A r \in Reqs :
        (Verified(r) /\ HeadersPresent(r) /\ ~WithinWindow(r))
        => /\ outcome[r] # "next"
           /\ Events(r, HandlerEvents) = <<>>
           /\ outcome[r] = "401" =>
                 /\ responses[r] = <<[status |-> 401, text |-> "Request timeout"]>>
                 /\ req[r].body.kind = "raw"

(***************************************************************************)
(* C4. req.body is replaced by the form-decoded mapping only after the     *)
(* signature comparison has succeeded; on a request whose signature is     *)
(* invalid the raw body is never parsed and req.body stays the raw bytes.  *)
(***************************************************************************)
C4_ParsedOnlyAfterValidSignature ==
    \A r \in Reqs :
        (Verified(r) /\ outcome[r] # "throw")
        => /\ req[r].body.kind = "parsed" => outcome[r] = "next"
           /\ (HeadersPresent(r) /\ ~SignatureMatches(r)) => req[r].body.kind = "raw"

\* The ways the claims count a request as failing authentication: a header
\* missing, a numeric timestamp outside the window, a signature that is not
\* the digest.
AuthenticationFails(r) ==
    \/ ~HeadersPresent(r)
    \/ LET t == ToNumber(req[r].timestamp[1])
       IN  t # <<>> /\ ~WithinWindow(r)
    \/ ~SignatureMatches(r)

(***************************************************************************)
(* C5. A request that fails authentication (a header missing, a stale      *)
(* timestamp, or a signature mismatch) is answered with an unauthorized    *)
(* response and nothing else happens: no handler, no search, no fetch, no  *)
(* write to the cache, no Slack message.                                   *)
(***************************************************************************)
C5_FailedAuthenticationIsTerminal ==
    \A r \in Reqs :
        (Verified(r) /\ AuthenticationFails(r))
        => /\ Len(responses[r]) = 1 /\ responses[r][1].status = 401
           /\ thrown[r] = ""
           /\ Events(r, HandlerEvents) = <<>>
           /\ slackCalls[r] = <<>>
           /\ pc[r] = "done"

(***************************************************************************)
(* Vocabulary of the properties of a search.                               *)
(***************************************************************************)
\* The landing page of request r has been loaded.
LandingWasLoaded(r) == idx[r] >= 1

\* searchKnowledgeBase has returned to the handler of request r.
SearchReturned(r) == returned[r] # <<>>

\* The cache lookups and the fetches of articles of request r, in order:
\* one per iteration of the loop.
Lookups(r) == Events(r, {"cacheHit", "fetch"})

\* The title and url of a result or of an article.
Ref(x) == [title |-> x.title, url |-> x.url]

\* The articles among the visited ones whose content was obtained and matches.
MatchedArticles(r) ==
    LET got == SelectSeq(processed[r],
                   LAMBDA p : p.how \in {"hit", "fetched"}
                              /\ contentMatches(ToLowerCase(SiteText(p.article.url)),
                                                QueryLower(r)))
    IN  [k \in 1..Len(got) |-> got[k].article]

(***************************************************************************)
(* C6. Whatever the number of links of the landing page, only the first 10 *)
(* discovered articles are processed, in discovery order: no cache lookup, *)
(* fetch or match test is made for an article at position 11 or later, and *)
(* at most 10 article fetches are issued per search.                       *)
(***************************************************************************)
C6_OnlyFirstTenProcessed ==
    \A r \in Reqs :
        /\ Len(Lookups(r)) <= 10
        /\ Len(processed[r]) <= 10
        /\ Len(Events(r, {"fetch"})) <= 10
        /\ \A k \in 1..Len(Lookups(r)) :
               k <= Len(articles[r]) /\ Lookups(r)[k].url = articles[r][k].url
        /\ \A k \in 1..Len(processed[r]) :
               k <= Len(articles[r]) /\ processed[r][k].article = articles[r][k]
        /\ SearchReturned(r) /\ LandingWasLoaded(r)
               => Len(Lookups(r)) = Min(10, Len(articles[r]))

\* A search of a landing page of 12 articles has returned after 10 fetches.
C6_Witness ==
    \E r \in Reqs :
        /\ SearchReturned(r)
        /\ Len(articles[r]) = 12
        /\ Len(Events(r, {"fetch"})) = 10

(***************************************************************************)
(* C7. A search returns at most 5 entries: the first (up to) 5, in         *)
(* discovery order, of the first 10 discovered articles whose content was  *)
(* obtained (from the cache or by a successful fetch) and matches the      *)
(* query, each with the title and url of its article.                      *)
(***************************************************************************)
C7_ReturnsFirstFiveMatches ==
    \A r \in Reqs :
        (SearchReturned(r) /\ LandingWasLoaded(r))
        => LET out == returned[r][1]
               want == MatchedArticles(r)
           IN  /\ Len(out) <= 5
               /\ Len(out) = Min(5, Len(want))
               /\ \A k \in 1..Len(out) : Ref(out[k]) = Ref(want[k])

\* A search with more than 5 matching articles has returned 5 results.
C7_Witness ==
    \E r \in Reqs :
        /\ SearchReturned(r)
        /\ Len(MatchedArticles(r)) > 5
        /\ Len(returned[r][1]) = 5

(***************************************************************************)
(* C8. A failed article fetch does not abort the search: every later       *)
(* article among the first 10 is still processed, the articles that        *)
(* matched before and after the failure are in the result (up to the cap   *)
(* of 5), and no exception escapes searchArticles.                         *)
(***************************************************************************)
C8_FailedFetchIsSkipped ==
    \A r \in Reqs :
        \A f \in 1..Len(processed[r]) :
            processed[r][f].how = "failed"
            => /\ Events(r, {"throw"}) = <<>> \/ SearchReturned(r)
               /\ pc[r] \in {"fetching", "delay"} \/ SearchReturned(r)
               /\ SearchReturned(r) =>
                     /\ Len(processed[r]) = Min(10, Len(articles[r]))
                     /\ \A k \in 1..Len(processed[r]) :
                            (k # f /\ processed[r][k].how # "failed"
                               /\ processed[r][k].matched)
                            => \E j \in 1..Len(results[r]) :
                                   Ref(results[r][j]) = Ref(processed[r][k].article)
                     /\ returned[r][1] = SubSeq(results[r], 1, Min(5, Len(results[r])))

\* A search has returned a match found before and a match found after a
\* fetch that failed.
C8_Witness ==
    \E r \in Reqs :
        /\ SearchReturned(r)
        /\ \E a, f, b \in 1..Len(processed[r]) :
              /\ a < f /\ f < b
              /\ processed[r][f].how = "failed"
              /\ processed[r][a].matched /\ processed[r][b].matched
              /\ \E i, j \in 1..Len(returned[r][1]) :
                    /\ i < j
                    /\ returned[r][1][i].url = processed[r][a].article.url
                    /\ returned[r][1][j].url = processed[r][b].article.url
                    /\ processed[r][a].article.url # processed[r][b].article.url

\* The message for no results, written out.
NoResultsCall(r) ==
    [method |-> "chat.postMessage", channel |-> ChannelId(r), user |-> <<>>,
     text |-> "No results found for \""
                 \o (IF "text" \in DOMAIN req[r].body.fields
                     THEN req[r].body.fields["text"] ELSE "undefined")
                 \o "\". Try searching for general topics like \"getting started\", \"setup\", or \"features\".",
     blocks |-> <<>>]

(***************************************************************************)
(* C9. When the landing-page fetch fails, searchKnowledgeBase returns an   *)
(* empty sequence, no exception escapes, no article fetch is issued, and   *)
(* the handler posts the same 'No results found' message as for a search   *)
(* in which no article matched.                                            *)
(***************************************************************************)
C9_LandingFailureGivesNoResults ==
    \A r \in Reqs :
        /\ Events(r, {"landingFailed"}) # <<>>
           => /\ returned[r] = << <<>> >>
              /\ Events(r, {"fetch", "cacheHit"}) = <<>>
              /\ Events(r, {"throw"}) = <<>> \/ Events(r, {"postFailed"}) # <<>>
              /\ Len(slackCalls[r]) >= 1 /\ slackCalls[r][1] = NoResultsCall(r)
        /\ (SearchReturned(r) /\ returned[r][1] = <<>>)
           => Len(slackCalls[r]) >= 1 /\ slackCalls[r][1] = NoResultsCall(r)

\* The landing-page fetch of a search has failed and the message is out.
C9_Witness ==
    \E r \in Reqs :
        /\ Events(r, {"landingFailed"}) # <<>>
        /\ Events(r, {"posted"}) # <<>>
        /\ pc[r] = "done"

(***************************************************************************)
(* C10. The 500 ms delay occurs exactly once per processed article         *)
(* iteration, whether a cache hit, a successful fetch or a failed fetch;   *)
(* so any two successive article fetches of one search are separated by a  *)
(* 500 ms delay.                                                           *)
(***************************************************************************)
C10_DelayOncePerIteration ==
    \A r \in Reqs :
        /\ Len(Events(r, {"delay"})) = Len(processed[r])
        /\ LET steps == Events(r, {"fetch", "delayed"})
           IN  \A k \in 1..(Len(steps) - 1) :
                   ~(steps[k].ev = "fetch" /\ steps[k + 1].ev = "fetch")

(***************************************************************************)
(* C11. Within one search, a URL that appears more than once among the     *)
(* processed articles is fetched successfully at most once, and no fetch   *)
(* of it is issued once a fetch of it has succeeded; a fetch that failed   *)
(* may be followed by another fetch of the same URL.                       *)
(***************************************************************************)
C11_AtMostOneSuccessfulFetchPerUrl ==
    \A r \in Reqs :
        LET fetches == Events(r, {"fetch", "fetched"})
        IN  \A i, j \in 1..Len(fetches) :
                ~(i < j /\ fetches[i].ev = "fetched" /\ fetches[i].url = fetches[j].url)

\* A search met a URL again after fetching it: the second time from the cache.
C11_Witness ==
    \E r \in Reqs :
        \E i, j \in 1..Len(processed[r]) :
            /\ i < j
            /\ processed[r][i].article.url = processed[r][j].article.url
            /\ processed[r][i].how = "fetched"
            /\ processed[r][j].how = "hit"

\* C11 as first stated: within one search at most one network fetch is
\* issued for a URL, whatever the outcome of each fetch.
C11_AtMostOneFetchPerUrl ==
    \A r \in Reqs :
        LET fetches == Events(r, {"fetch"})
        IN  \A i, j \in 1..Len(fetches) :
                i < j => fetches[i].url # fetches[j].url

(***************************************************************************)
(* C12. With searches running together on the one cache, the cache is      *)
(* append-only per key: once a URL has a cache entry no later step of any  *)
(* search writes that key again, so a URL receives at most one put.        *)
(***************************************************************************)
C12_CacheAppendOnlyPerKey ==
    [][\A r \in Reqs :
          (pc[r] = "fetching" /\ pc'[r] = "delay")
          => ~CacheHas(cache, articles[r][idx[r]].url)]_vars

(***************************************************************************)
(* Vocabulary of the properties of the handler.                            *)
(***************************************************************************)
\* The handler has run on an authenticated /sbhelp command in slot r.
SearchCommandHandled(r) ==
    /\ outcome[r] = "next"
    /\ pc[r] # "handler"
    /\ "command" \in DOMAIN req[r].body.fields
    /\ req[r].body.fields["command"] = "/sbhelp"

\* The handler has run on an authenticated command that is not /sbhelp.
OtherCommandHandled(r) ==
    /\ outcome[r] = "next"
    /\ pc[r] # "handler"
    /\ ~("command" \in DOMAIN req[r].body.fields
         /\ req[r].body.fields["command"] = "/sbhelp")

\* The places of the events of request r with one of the given names.
Places(r, names) == { k \in 1..Len(trace[r]) : trace[r][k].ev \in names }

(***************************************************************************)
(* C13. For every authenticated /sbhelp command the acknowledgment is      *)
(* sent before the landing-page fetch, before any article fetch and before *)
(* any outbound Slack message of that command, whatever the later outcome  *)
(* of the search.                                                          *)
(***************************************************************************)
C13_AcknowledgedBeforeSearch ==
    \A r \in Reqs :
        SearchCommandHandled(r)
        => /\ Len(responses[r]) >= 1
           /\ responses[r][1] = [status |-> 200,
                                 text |-> "Searching SessionBoard knowledge base..."]
           /\ \E a \in Places(r, {"respond"}) :
                  \A k \in Places(r, {"fetchLanding", "fetch", "postMessage",
                                      "postEphemeral"}) : a < k

\* A command whose search fetched an article and whose two Slack calls both
\* failed is over.
C13_Witness ==
    \E r \in Reqs :
        /\ SearchCommandHandled(r) /\ pc[r] = "done"
        /\ Places(r, {"fetch"}) # {}
        /\ Places(r, {"ephemeralFailed"}) # {}

(***************************************************************************)
(* C14. For every authenticated /sbhelp command the processing after the   *)
(* acknowledgment ends with an outbound message for the user: the results  *)
(* (or no-results) message is posted, or, when a step fails, the failure   *)
(* is caught and the ephemeral error message is sent; no failure escapes   *)
(* the handler uncaught.                                                   *)
(***************************************************************************)
C14_ProcessingEndsWithMessage ==
    \A r \in Reqs :
        (SearchCommandHandled(r) /\ pc[r] = "done")
        => /\ thrown[r] = ""
           /\ Places(r, {"posted", "ephemeralPosted"}) # {}

(***************************************************************************)
(* C17. For every authenticated request whose command is not /sbhelp the   *)
(* handler answers at once with 'Unknown command' and starts no search,    *)
(* issues no fetch, writes no cache entry and posts no Slack message.      *)
(***************************************************************************)
C17_UnknownCommandOnlyAnswers ==
    \A r \in Reqs :
        OtherCommandHandled(r)
        => /\ responses[r] = <<[status |-> 200, text |-> "Unknown command"]>>
           /\ trace[r] = <<Event("next", ""), Event("respond", "")>>
           /\ slackCalls[r] = <<>>
           /\ returned[r] = <<>> /\ processed[r] = <<>> /\ articles[r] = <<>>
           /\ pc[r] = "done"

\* The command /weather has been answered.
C17_Witness ==
    \E r \in Reqs :
        /\ OtherCommandHandled(r)
        /\ req[r].body.fields["command"] = "/weather"
        /\ pc[r] = "done"

(***************************************************************************)
(* C20. For every request the handler handles, under every combination of  *)
(* outcomes of the search and of the Slack calls (a failed results post    *)
(* followed by a failed ephemeral post included), the HTTP response is     *)
(* written exactly once: after the acknowledgment no second response is    *)
(* attempted on the request.                                               *)
(***************************************************************************)
C20_RespondsExactlyOnce ==
    \A r \in Reqs :
        (outcome[r] = "next" /\ pc[r] # "handler")
        => Len(responses[r]) = 1 /\ Len(Events(r, {"respond"})) = 1

(***************************************************************************)
(* Vocabulary of the properties of the cache.                              *)
(***************************************************************************)
\* The events a step adds to the handling of request r.
NewEvents(r) ==
    IF Len(trace'[r]) >= Len(trace[r])
    THEN SubSeq(trace'[r], Len(trace[r]) + 1, Len(trace'[r]))
    ELSE <<>>

\* The urls of the events with the given name that a step adds for request r.
NewUrls(r, name) ==
    { NewEvents(r)[k].url : k \in { j \in 1..Len(NewEvents(r)) : NewEvents(r)[j].ev = name } }

(***************************************************************************)
(* C18. Whenever a search comes to an article whose url has a cache entry  *)
(* at the moment of the lookup (put by this or by an earlier search), it   *)
(* issues no fetch for that article, and it tests the match and builds the *)
(* snippet from the cached content: a fetch is only issued for a url that  *)
(* has no entry.                                                           *)
(***************************************************************************)
C18_CacheHitDoesNotFetch ==
    [][\A r \in Reqs :
          /\ \A u \in NewUrls(r, "fetch") : u \notin DOMAIN cache
          /\ \A u \in NewUrls(r, "cacheHit") :
                 LET last == processed'[r][Len(processed'[r])]
                     query == ToLowerCase(QueryOf(Prop(req[r].body.fields, "text")))
                 IN  /\ u \in DOMAIN cache
                     /\ NewUrls(r, "fetch") = {}
                     /\ pc'[r] # "fetching"
                     /\ last.how = "hit" /\ last.article.url = u
                     /\ last.matched = contentMatches(cache[u], query)
                     /\ results'[r] =
                            IF contentMatches(cache[u], query)
                            THEN Append(results[r],
                                        [title |-> last.article.title, url |-> u,
                                         snippet |-> extractSnippet(cache[u], query)])
                            ELSE results[r]
      ]_vars

\* The first article of a search was found in the cache, where an earlier
\* search had put it, and it matched.
C18_Witness ==
    \E r \in Reqs :
        /\ Len(processed[r]) >= 1
        /\ processed[r][1].how = "hit" /\ processed[r][1].matched
        /\ Len(results[r]) >= 1
        /\ Events(r, {"fetch"}) = <<>>

(***************************************************************************)
(* C19. Over any sequence of searches the only change made to the cache is *)
(* the insertion of the lowercased body text of an article under its url   *)
(* in the step where its fetch succeeds: no entry is removed, the key set  *)
(* never shrinks, and a failed article fetch, a failed landing-page fetch, *)
(* a cache hit and the match and snippet steps leave the cache unchanged.  *)
(***************************************************************************)
C19_CacheOnlyGrowsByFetchedText ==
    [][/\ DOMAIN cache \subseteq DOMAIN cache'
       /\ \A v \in DOMAIN cache :
              cache'[v] # cache[v] => \E r \in Reqs : v \in NewUrls(r, "fetched")
       /\ \A v \in DOMAIN cache' \ DOMAIN cache :
              \E r \in Reqs : v \in NewUrls(r, "fetched")
       /\ \A r \in Reqs :
              /\ \A u \in NewUrls(r, "fetched") :
                     /\ u \in DOMAIN cache'
                     /\ cache'[u] = ToLowerCase(SiteText(u))
              /\ (NewUrls(r, "fetched") = {}
                  /\ \E name \in {"fetchFailed", "landingFailed", "cacheHit", "return"} :
                         NewUrls(r, name) # {})
                 => cache' = cache
      ]_vars

\* A search that met a failed fetch, a hit and a successful fetch is over,
\* and the cache holds at least two entries.
C19_Witness ==
    \E r \in Reqs :
        /\ pc[r] = "done"
        /\ \A how \in {"failed", "hit", "fetched"} :
               \E k \in 1..Len(processed[r]) : processed[r][k].how = how
        /\ \E u, v \in DOMAIN cache : u # v

(***************************************************************************)
(* contentMatches and extractSnippet on their own: the arguments are drawn *)
(* from the texts and queries below, and a step is one call.               *)
(***************************************************************************)
RECURSIVE Repeat(_, _)
\* s.repeat(n)
Repeat(s, n) ==
    IF n <= 0 THEN ""
    ELSE IF n % 2 = 0 THEN LET half == Repeat(s, n \div 2) IN half \o half
    ELSE s \o Repeat(s, n - 1)

\* Lowercased body texts of articles: short ones, the empty one, and long
\* ones where the query lies more or less than 100 characters from the start
\* and more or less than 200 characters from the end.
PureContents ==
    { "badge printing",
      "setup: getting started",
      "started here",
      "abc",
      "",
      Repeat("x", 99) \o "badge" \o Repeat("y", 194),
      Repeat("x", 101) \o "badge" \o Repeat("y", 250),
      Repeat(" ", 30) \o "badge printing" \o Repeat(" ", 30),
      Repeat("x", 100) \o " badge " \o Repeat("y", 200),
      "badge one. " \o Repeat("z", 150) \o " badge two" }

\* Lowercased queries, as the text field of the form gives them: one word,
\* several words, and spaces in front, behind and repeated.
PureQueries ==
    { "badge", "badge printing", "printing badge", " badge", "badge ",
      "x  y", " ", "getting started", "setup", "zzz qqq", "started" }

InitPure ==
    /\ call \in { [fn |-> "", content |-> c, query |-> q, result |-> <<>>] :
                    c \in PureContents, q \in PureQueries }
    /\ cache = [u \in {} |-> ""]
    /\ pc = [r \in Reqs |-> "idle"]
    /\ req = [r \in Reqs |-> NoRequest]
    /\ outcome = [r \in Reqs |-> ""]
    /\ responses = [r \in Reqs |-> <<>>]
    /\ thrown = [r \in Reqs |-> ""]
    /\ articles = [r \in Reqs |-> <<>>]
    /\ idx = [r \in Reqs |-> 0]
    /\ results = [r \in Reqs |-> <<>>]
    /\ returned = [r \in Reqs |-> <<>>]
    /\ processed = [r \in Reqs |-> <<>>]
    /\ slackCalls = [r \in Reqs |-> <<>>]
    /\ trace = [r \in Reqs |-> <<>>]

\* this.contentMatches(content, queryLower)
CallContentMatches ==
    /\ call.fn = ""
    /\ call' = [call EXCEPT !.fn = "contentMatches",
                            !.result = <<contentMatches(call.content, call.query)>>]
    /\ UNCHANGED <<cache, pc, req, outcome, responses, thrown, articles, idx, results,
                   returned, processed, slackCalls, trace>>

\* this.extractSnippet(content, queryLower)
CallExtractSnippet ==
    /\ call.fn = ""
    /\ call' = [call EXCEPT !.fn = "extractSnippet",
                            !.result = <<extractSnippet(call.content, call.query)>>]
    /\ UNCHANGED <<cache, pc, req, outcome, responses, thrown, articles, idx, results,
                   returned, processed, slackCalls, trace>>

NextPure == CallContentMatches \/ CallExtractSnippet

SpecPure == InitPure /\ [][NextPure]_vars

(***************************************************************************)
(* Vocabulary of the properties of the two methods.                        *)
(***************************************************************************)
\* The places (from 1) at which q occurs in s.
Occurrences(s, q) ==
    { i \in 1..(Len(s) - Len(q) + 1) : SubSeq(s, i, i + Len(q) - 1) = q }

\* q occurs in s.
IsSubstring(q, s) == Occurrences(s, q) # {}

\* The character of s at place i (from 1) is white space.
SpaceAt(s, i) == SubSeq(s, i, i) \in {" ", "\t", "\n", "\r", "\f"}

\* The whitespace-delimited tokens of q: its longest runs of characters that
\* are not white space.
Tokens(q) ==
    { SubSeq(q, p[1], p[2]) :
        p \in { p \in (1..Len(q)) \X (1..Len(q)) :
                  /\ p[1] <= p[2]
                  /\ \A i \in p[1]..p[2] : ~SpaceAt(q, i)
                  /\ p[1] = 1 \/ SpaceAt(q, p[1] - 1)
                  /\ p[2] = Len(q) \/ SpaceAt(q, p[2] + 1) } }

\* s without the white space at its two ends.
Stripped(s) ==
    LET inside == { i \in 1..Len(s) : ~SpaceAt(s, i) }
    IN  IF inside = {} THEN ""
        ELSE SubSeq(s, CHOOSE a \in inside : \A i \in inside : a <= i,
                       CHOOSE b \in inside : \A i \in inside : i <= b)

(***************************************************************************)
(* C15. contentMatches(content, query) is true when the full query is a    *)
(* substring of content, true when a whitespace-delimited token of the     *)
(* query is a substring of content, and false when neither holds, for      *)
(* every content and every query, queries with leading, trailing or        *)
(* repeated spaces included.                                               *)
(***************************************************************************)
C15_MatchesFullQueryOrToken ==
    call.fn = "contentMatches"
    => call.result[1] = (\/ IsSubstring(call.query, call.content)
                         \/ \E t \in Tokens(call.query) : IsSubstring(t, call.content))

(***************************************************************************)
(* C16. extractSnippet(content, query) is the empty string exactly when    *)
(* the full query does not occur in content; otherwise, with i the index   *)
(* (from 0) of its first occurrence, it is the text of content from index  *)
(* i - 100 (or 0 if that is negative) up to index i + 200 (or the length   *)
(* of content if that is less), without the white space at its two ends,   *)
(* followed by '...'; so it is not empty when the full query occurs.       *)
(***************************************************************************)
C16_SnippetAroundFirstOccurrence ==
    call.fn = "extractSnippet"
    => LET c == call.content
           occ == Occurrences(c, call.query)
           i == (CHOOSE k \in occ : \A j \in occ : k <= j) - 1
           from == IF i - 100 < 0 THEN 0 ELSE i - 100
           to == IF i + 200 > Len(c) THEN Len(c) ELSE i + 200
       IN  /\ (call.result[1] = "") <=> (occ = {})
           /\ occ # {} => call.result[1] = Stripped(SubSeq(c, from + 1, to)) \o "..."

\* The snippet of a query that lies more than 100 characters from the start
\* and more than 200 characters from the end of the content has been built.
C16_Witness ==
    /\ call.fn = "extractSnippet"
    /\ \E k \in Occurrences(call.content, call.query) :
           /\ \A j \in Occurrences(call.content, call.query) : k <= j
           /\ k - 1 > 100
           /\ k - 1 + 200 < Len(call.content)
    /\ Len(call.result[1]) > 200

====
